---- MODULE Spec2Model ----
(***************************************************************************)
(* Model of the technical-analysis bot in src/index.js: the indicator      *)
(* library (TechnicalIndicators), the structure analysis (SMCAnalysis),    *)
(* the decision engine (DecisionEngine) and the handlers that drive it     *)
(* (/signals, /details, periodicAnalysis).                                 *)
(*                                                                         *)
(* Arithmetic.  The code computes in IEEE doubles.  The model computes the *)
(* same expressions in exact arithmetic over integer prices: short sums    *)
(* and quotients as normalised fractions (Rat), the exponential moving     *)
(* average as a fraction of two unbounded naturals (Big), because its      *)
(* denominator is (period+1)^(length-1).                                   *)
(***************************************************************************)
EXTENDS Integers, Sequences, FiniteSets

VARIABLES
    market,     \* the outcomes the PriceSource can hand to a fetch
    pc,         \* per batch: "idle", "awaiting", "collected", "done", "failed"
    cursor,     \* per batch: index of the pair whose fetch is awaited
    request,    \* per batch: the symbol asked for (/details), or "*"
    results,    \* per batch: the local analysisResults table, pair -> Analysis
    fetched,    \* per batch: what each fetch of the run returned (history)
    sessions,   \* chat id -> session record, or Undefined
    sent,       \* the alert messages handed to bot.sendMessage
    input,      \* argument of the function applied on its own
    output      \* its result, or Pending

vars == <<market, pc, cursor, request, results, fetched, sessions, sent, input, output>>

(***************************************************************************)
(* Bounds of the model.                                                    *)
(***************************************************************************)
MaxPrice == 2          \* prices of the short series are 0..MaxPrice
FamilyMaxPrice == 1    \* prices of the long series are 0..FamilyMaxPrice
NumChats == 2
MaxCount == 7          \* signal counts handed to the decision rule
MaxVotes == 4          \* timeframes in one vote
MaxLen == 6            \* length of a short series
MaxWindow == 2
MaxPeriod == 3
MaxSwings == 4

Prices == 0..MaxPrice
Chats == 1..NumChats

\* The first symbols and timeframes of the lists of lines 26 and 29
SYMBOLS == <<"BTC", "ETH">>
TIMEFRAMES == <<"5m", "15m">>

(***************************************************************************)
(* JavaScript values.                                                      *)
(***************************************************************************)
Null == [kind |-> "null"]
Undefined == [kind |-> "undefined"]
Pending == [kind |-> "pending"]

Max(a, b) == IF a >= b THEN a ELSE b
Min(a, b) == IF a <= b THEN a ELSE b
Abs(a) == IF a < 0 THEN -a ELSE a

(***************************************************************************)
(* Exact fractions over small integers.                                    *)
(***************************************************************************)
RECURSIVE Gcd(_, _)
Gcd(a, b) == IF b = 0 THEN a ELSE Gcd(b, a % b)

Rat(n, d) ==
    LET g == Gcd(Abs(n), Abs(d))
        s == IF d < 0 THEN -1 ELSE 1
    IN  [kind |-> "num", num |-> (s * n) \div g, den |-> (s * d) \div g]

RatInt(n) == Rat(n, 1)
RatAdd(x, y) == Rat(x.num * y.den + y.num * x.den, x.den * y.den)
RatSub(x, y) == Rat(x.num * y.den - y.num * x.den, x.den * y.den)
RatMul(x, y) == Rat(x.num * y.num, x.den * y.den)
RatDiv(x, y) == Rat(x.num * y.den, x.den * y.num)
RatLess(x, y) == x.num * y.den < y.num * x.den
RatIsZero(x) == x.num = 0

(***************************************************************************)
(* Unbounded naturals: limbs base 10000, least significant first, no       *)
(* leading zero limb; zero is the empty sequence.                          *)
(*                                                                         *)
(* Loops are written as recursions that split their range, so that their   *)
(* evaluation nests to the logarithm of the length.  Where a turn uses the *)
(* value of the turn before, the test a = a has the first part worked out  *)
(* before the next part starts: the turns are taken in the loop's order.   *)
(***************************************************************************)

Limb(x) == x % 10000
Carry(x) == x \div 10000

SetMax(S) == CHOOSE i \in S : \A j \in S : j <= i

BigTrim(a) ==
    LET nz == {i \in 1..Len(a) : a[i] # 0}
    IN  IF nz = {} THEN << >> ELSE SubSeq(a, 1, SetMax(nz))

\* carry propagation over raw[lo..hi]; st = <<limbs so far, carry>>
CarryStep(raw, i, st) ==
    <<Append(st[1], Limb(raw[i] + st[2])), Carry(raw[i] + st[2])>>

RECURSIVE BigCarry(_, _, _, _)
BigCarry(raw, lo, hi, st) ==
    IF lo > hi THEN st
    ELSE IF lo = hi THEN CarryStep(raw, lo, st)
    ELSE LET q == (hi - lo) \div 4
             a == BigCarry(raw, lo, Min(lo + q, hi), st)
             b == BigCarry(raw, lo + q + 1, Min(lo + 2 * q + 1, hi), a)
             c == BigCarry(raw, lo + 2 * q + 2, Min(lo + 3 * q + 2, hi), b)
         IN  IF a = a /\ b = b /\ c = c
             THEN BigCarry(raw, lo + 3 * q + 3, hi, c)
             ELSE st

\* the natural with the (possibly oversized or negative) limbs raw; the last
\* carry is below 10000 * 10000 and takes two more limbs
BigNorm(raw) ==
    BigTrim(BigCarry(raw \o <<0, 0>>, 1, Len(raw) + 2, << << >>, 0 >>)[1])

BigNat(n) == BigNorm(<<n>>)
BigAt(a, i) == IF i >= 1 /\ i <= Len(a) THEN a[i] ELSE 0
BigMulSmall(a, m) == BigNorm([i \in 1..Len(a) |-> a[i] * m])
BigAdd(a, b) ==
    BigNorm([i \in 1..Max(Len(a), Len(b)) |-> BigAt(a, i) + BigAt(b, i)])

\* sum of a[i] * b[k + 1 - i] for i in lo..hi
RECURSIVE BigConv(_, _, _, _, _)
BigConv(a, b, k, lo, hi) ==
    IF lo > hi THEN 0
    ELSE IF lo = hi THEN a[lo] * BigAt(b, k + 1 - lo)
    ELSE BigConv(a, b, k, lo, (lo + hi) \div 2)
         + BigConv(a, b, k, (lo + hi) \div 2 + 1, hi)

\* a * b, the shorter operand first so that a column sum stays below 2^31
BigMulOrdered(a, b) ==
    IF Len(a) = 0 \/ Len(b) = 0 THEN << >>
    ELSE BigNorm([k \in 1..(Len(a) + Len(b) - 1) |->
                      BigConv(a, b, k, 1, Min(k, Len(a)))])

BigMul(a, b) == IF Len(a) <= Len(b) THEN BigMulOrdered(a, b) ELSE BigMulOrdered(b, a)

BigLess(a, b) ==
    IF Len(a) # Len(b) THEN Len(a) < Len(b)
    ELSE LET diff == {i \in 1..Len(a) : a[i] # b[i]}
         IN  diff # {} /\ a[SetMax(diff)] < b[SetMax(diff)]

\* a - b for a >= b
BigSub(a, b) == BigNorm([i \in 1..Len(a) |-> a[i] - BigAt(b, i)])

BigRat(n, d) == [kind |-> "num", neg |-> FALSE, num |-> n, den |-> d]
BigRatLess(x, y) == BigLess(BigMul(x.num, y.den), BigMul(y.num, x.den))

\* x - y of two non-negative fractions, with its sign
BigRatSub(x, y) ==
    LET l == BigMul(x.num, y.den)
        r == BigMul(y.num, x.den)
        d == BigMul(x.den, y.den)
    IN  IF BigLess(l, r)
        THEN [kind |-> "num", neg |-> TRUE, num |-> BigSub(r, l), den |-> d]
        ELSE [kind |-> "num", neg |-> FALSE, num |-> BigSub(l, r), den |-> d]

(***************************************************************************)
(* base + coef * sqrt(radicand), kept symbolic: the root is irrational.    *)
(* Comparisons with a fraction are decided by squaring.                    *)
(***************************************************************************)
Surd(base, coef, radicand) ==
    [kind |-> "num", base |-> base, coef |-> coef, radicand |-> radicand]

RatSquare(x) == RatMul(x, x)

\* x > s
RatGreaterSurd(x, s) ==
    LET d == RatSub(x, s.base)
        c2r == RatMul(RatInt(s.coef * s.coef), s.radicand)
    IN  IF s.coef >= 0
        THEN d.num > 0 /\ RatLess(c2r, RatSquare(d))
        ELSE d.num >= 0 \/ RatLess(RatSquare(d), c2r)

\* x < s
RatLessSurd(x, s) ==
    LET d == RatSub(x, s.base)
        c2r == RatMul(RatInt(s.coef * s.coef), s.radicand)
    IN  IF s.coef >= 0
        THEN d.num < 0 \/ RatLess(RatSquare(d), c2r)
        ELSE d.num < 0 /\ RatLess(c2r, RatSquare(d))

(***************************************************************************)
(* TechnicalIndicators                                                     *)
(***************************************************************************)
\* prices[lo] + ... + prices[hi]
RECURSIVE SumRange(_, _, _)
SumRange(prices, lo, hi) ==
    IF lo > hi THEN 0
    ELSE IF lo = hi THEN prices[lo]
    ELSE SumRange(prices, lo, (lo + hi) \div 2) + SumRange(prices, (lo + hi) \div 2 + 1, hi)

\* prices.slice(-period).reduce(+) / period
calculateMA(prices, period) ==
    IF Len(prices) < period THEN Null
    ELSE Rat(SumRange(prices, Len(prices) - period + 1, Len(prices)), period)

\* One turn of the loop: ema = prices[i] * k + ema * (1 - k), k = 2 / (period + 1),
\* which is (2 * prices[i] + (period - 1) * ema) / (period + 1).
EMAStep(ema, price, period) ==
    BigRat(BigAdd(BigMulSmall(ema.den, 2 * price), BigMulSmall(ema.num, period - 1)),
           BigMulSmall(ema.den, period + 1))

\* The loop over i = lo..hi (1-based)
RECURSIVE EMALoop(_, _, _, _, _)
EMALoop(prices, period, lo, hi, ema) ==
    IF lo > hi THEN ema
    ELSE IF lo = hi THEN EMAStep(ema, prices[lo], period)
    ELSE LET q == (hi - lo) \div 4
             a == EMALoop(prices, period, lo, Min(lo + q, hi), ema)
             b == EMALoop(prices, period, lo + q + 1, Min(lo + 2 * q + 1, hi), a)
             c == EMALoop(prices, period, lo + 2 * q + 2, Min(lo + 3 * q + 2, hi), b)
         IN  IF a = a /\ b = b /\ c = c
             THEN EMALoop(prices, period, lo + 3 * q + 3, hi, c)
             ELSE ema

calculateEMA(prices, period) ==
    IF Len(prices) < period THEN Null
    ELSE EMALoop(prices, period, 2, Len(prices), BigRat(BigNat(prices[1]), BigNat(1)))

\* The loop over the deltas prices[i] - prices[i-1], i = lo..hi (0-based):
\* what it adds to <<gains, losses>>
RECURSIVE RSILoop(_, _, _)
RSILoop(prices, lo, hi) ==
    IF lo > hi THEN <<0, 0>>
    ELSE IF lo = hi
    THEN LET change == prices[lo + 1] - prices[lo]
         IN  IF change >= 0 THEN <<change, 0>> ELSE <<0, -change>>
    ELSE LET left == RSILoop(prices, lo, (lo + hi) \div 2)
             right == RSILoop(prices, (lo + hi) \div 2 + 1, hi)
         IN  <<left[1] + right[1], left[2] + right[2]>>

\* The RSI of the newest period deltas
MutCalculateRSINewest(prices, period) ==
    IF Len(prices) < period + 1 THEN Null
    ELSE LET gl == RSILoop(prices, Len(prices) - period, Len(prices) - 1)
             avgGain == Rat(gl[1], period)
             avgLoss == Rat(gl[2], period)
         IN  IF RatIsZero(avgLoss) THEN RatInt(100)
             ELSE LET rs == RatDiv(avgGain, avgLoss)
                  IN  RatSub(RatInt(100), RatDiv(RatInt(100), RatAdd(RatInt(1), rs)))

calculateRSI(prices, period) ==
    IF Len(prices) < period + 1 THEN Null
    ELSE LET gl == RSILoop(prices, 1, period)
             avgGain == Rat(gl[1], period)
             avgLoss == Rat(gl[2], period)
         IN  IF RatIsZero(avgLoss) THEN RatInt(100)
             ELSE LET rs == RatDiv(avgGain, avgLoss)
                  IN  RatSub(RatInt(100), RatDiv(RatInt(100), RatAdd(RatInt(1), rs)))

calculateMACD(prices, fast, slow, signal) ==
    IF Len(prices) < slow THEN Null
    ELSE [kind |-> "object",
          macd |-> BigRatSub(calculateEMA(prices, fast), calculateEMA(prices, slow)),
          signal |-> Null,
          histogram |-> Null]

\* sum of (prices[i] - ma)^2 for i in lo..hi
RECURSIVE SumSquaredDiffs(_, _, _, _)
SumSquaredDiffs(prices, ma, lo, hi) ==
    IF lo > hi THEN RatInt(0)
    ELSE IF lo = hi THEN RatSquare(RatSub(RatInt(prices[lo]), ma))
    ELSE RatAdd(SumSquaredDiffs(prices, ma, lo, (lo + hi) \div 2),
                SumSquaredDiffs(prices, ma, (lo + hi) \div 2 + 1, hi))

calculateBollingerBands(prices, period, stdDev) ==
    IF Len(prices) < period THEN Null
    ELSE LET ma == calculateMA(prices, period)
             variance == RatDiv(SumSquaredDiffs(prices, ma, Len(prices) - period + 1, Len(prices)),
                                RatInt(period))
         IN  [kind |-> "object",
              upper |-> Surd(ma, stdDev, variance),
              middle |-> ma,
              lower |-> Surd(ma, -stdDev, variance)]

(***************************************************************************)
(* DecisionEngine                                                          *)
(*                                                                         *)
(* A signal tag is the sequence of its words: 'BULLISH_TREND' is           *)
(* <<"BULLISH", "TREND">>.  String.includes(word) is membership of the     *)
(* word; no word of the vocabulary is part of another.                     *)
(***************************************************************************)
BULLISH_TREND == <<"BULLISH", "TREND">>
BEARISH_TREND == <<"BEARISH", "TREND">>
OVERSOLD == <<"OVERSOLD">>
OVERBOUGHT == <<"OVERBOUGHT">>
NEUTRAL_RSI == <<"NEUTRAL", "RSI">>
BULLISH_MACD == <<"BULLISH", "MACD">>
BEARISH_MACD == <<"BEARISH", "MACD">>
RESISTANCE_TOUCH == <<"RESISTANCE", "TOUCH">>
SUPPORT_TOUCH == <<"SUPPORT", "TOUCH">>
WITHIN_BANDS == <<"WITHIN", "BANDS">>

Includes(signal, word) == \E i \in 1..Len(signal) : signal[i] = word

\* JavaScript truthiness of an indicator value: null and 0 are falsy, an
\* object is truthy
Truthy(x) ==
    CASE x.kind = "null" -> FALSE
      [] x.kind = "object" -> TRUE
      [] OTHER -> x.num # 0

\* An array is truthy, null is not
Array(data) == [kind |-> "array", data |-> data]

TrendSignals(ma20, ma50) ==
    IF Truthy(ma20) /\ Truthy(ma50)
    THEN IF RatLess(ma50, ma20) THEN <<BULLISH_TREND>> ELSE <<BEARISH_TREND>>
    ELSE << >>

RSISignals(rsi) ==
    IF rsi # Null
    THEN IF RatLess(rsi, RatInt(30)) THEN <<OVERSOLD>>
         ELSE IF RatLess(RatInt(70), rsi) THEN <<OVERBOUGHT>>
         ELSE <<NEUTRAL_RSI>>
    ELSE << >>

\* With macd truthy both ema12 and ema26 are numbers
MACDSignals(macd, ema12, ema26) ==
    IF Truthy(macd)
    THEN IF BigRatLess(ema26, ema12) THEN <<BULLISH_MACD>> ELSE <<BEARISH_MACD>>
    ELSE << >>

BandSignals(bb, currentPrice) ==
    IF Truthy(bb)
    THEN IF RatGreaterSurd(RatInt(currentPrice), bb.upper) THEN <<RESISTANCE_TOUCH>>
         ELSE IF RatLessSurd(RatInt(currentPrice), bb.lower) THEN <<SUPPORT_TOUCH>>
         ELSE <<WITHIN_BANDS>>
    ELSE << >>

CountSignals(signals, w1, w2) ==
    Len(SelectSeq(signals, LAMBDA signal : Includes(signal, w1) \/ Includes(signal, w2)))

bullishSignals(signals) == CountSignals(signals, "BULLISH", "OVERSOLD")
bearishSignals(signals) == CountSignals(signals, "BEARISH", "OVERBOUGHT")

\* Decide without the margin of one between the counts
MutDecideNoMargin(bullish, bearish) ==
    IF bullish > bearish
    THEN [decision |-> "BUY", confidence |-> IF bullish >= 4 THEN "HIGH" ELSE "MEDIUM"]
    ELSE IF bearish > bullish
    THEN [decision |-> "SELL", confidence |-> IF bearish >= 4 THEN "HIGH" ELSE "MEDIUM"]
    ELSE [decision |-> "HOLD", confidence |-> "LOW"]

\* Decide with HIGH from three signals on
MutDecideHighAtThree(bullish, bearish) ==
    IF bullish > bearish + 1
    THEN [decision |-> "BUY", confidence |-> IF bullish >= 3 THEN "HIGH" ELSE "MEDIUM"]
    ELSE IF bearish > bullish + 1
    THEN [decision |-> "SELL", confidence |-> IF bearish >= 3 THEN "HIGH" ELSE "MEDIUM"]
    ELSE [decision |-> "HOLD", confidence |-> "LOW"]

\* The overall decision from the two counts
Decide(bullish, bearish) ==
    IF bullish > bearish + 1
    THEN [decision |-> "BUY", confidence |-> IF bullish >= 4 THEN "HIGH" ELSE "MEDIUM"]
    ELSE IF bearish > bullish + 1
    THEN [decision |-> "SELL", confidence |-> IF bearish >= 4 THEN "HIGH" ELSE "MEDIUM"]
    ELSE [decision |-> "HOLD", confidence |-> "LOW"]

\* Lines 239-246: the indicators of a series
Indicators(prices) ==
    [ma20 |-> calculateMA(prices, 20),
     ma50 |-> calculateMA(prices, 50),
     rsi |-> calculateRSI(prices, 14),
     ema12 |-> calculateEMA(prices, 12),
     ema26 |-> calculateEMA(prices, 26),
     bb |-> calculateBollingerBands(prices, 20, 2),
     macd |-> calculateMACD(prices, 12, 26, 9)]

\* Lines 249-289: the signals, one rule group after the other
BuildSignals(currentPrice, ind) ==
    TrendSignals(ind.ma20, ind.ma50) \o RSISignals(ind.rsi)
        \o MACDSignals(ind.macd, ind.ema12, ind.ema26)
        \o BandSignals(ind.bb, currentPrice)

\* analyzeSymbol once the fetch has returned historicalData (null or an array)
analyzeSymbol(symbol, timeframe, historicalData) ==
    IF historicalData.kind = "null" \/ Len(historicalData.data) < 20
    THEN [symbol |-> symbol, timeframe |-> timeframe,
          decision |-> "INSUFFICIENT_DATA", reason |-> "Not enough historical data"]
    ELSE LET prices == historicalData.data
             currentPrice == prices[Len(prices)]
             indicators == Indicators(prices)
             signals == BuildSignals(currentPrice, indicators)
             d == Decide(bullishSignals(signals), bearishSignals(signals))
         IN  [indicators |-> indicators,
              symbol |-> symbol, timeframe |-> timeframe,
              currentPrice |-> currentPrice,
              decision |-> d.decision, confidence |-> d.confidence,
              signals |-> signals]

(***************************************************************************)
(* SMCAnalysis                                                             *)
(***************************************************************************)
\* The inner loop with an equal value in the window accepted
MutSwingFlagsEqual(prices, windowSize, i) ==
    LET others == {j \in (i - windowSize)..(i + windowSize) : j # i}
    IN  <<\A j \in others : ~(prices[j + 1] > prices[i + 1]),
          \A j \in others : ~(prices[j + 1] < prices[i + 1])>>

\* The inner loop for the 0-based index i: <<isHigh, isLow>>
SwingFlags(prices, windowSize, i) ==
    LET others == {j \in (i - windowSize)..(i + windowSize) : j # i}
    IN  <<\A j \in others : ~(prices[j + 1] >= prices[i + 1]),
          \A j \in others : ~(prices[j + 1] <= prices[i + 1])>>

\* The outer loop from the 0-based index i on
RECURSIVE SwingsFrom(_, _, _)
SwingsFrom(prices, windowSize, i) ==
    IF ~(i < Len(prices) - windowSize) THEN << >>
    ELSE LET f == SwingFlags(prices, windowSize, i)
             here == IF f[1] THEN <<[type |-> "high", index |-> i, price |-> prices[i + 1]]>>
                     ELSE IF f[2] THEN <<[type |-> "low", index |-> i, price |-> prices[i + 1]]>>
                     ELSE << >>
         IN  here \o SwingsFrom(prices, windowSize, i + 1)

findSwings(prices, windowSize) == SwingsFrom(prices, windowSize, windowSize)

\* One turn of the loop that keeps the first high and the first low for good
MutOrderBlockStepFirst(st, swing) ==
    IF swing.type = "high"
    THEN IF st.currentHigh # Null /\ swing.price > st.currentHigh.price
         THEN [st EXCEPT !.orderBlocks =
                             Append(@, [type |-> "bullish", high |-> st.currentHigh.price,
                                        low |-> swing.price, confirmed |-> FALSE])]
         ELSE IF st.currentHigh = Null THEN [st EXCEPT !.currentHigh = swing]
         ELSE st
    ELSE IF swing.type = "low"
    THEN IF st.currentLow # Null /\ swing.price < st.currentLow.price
         THEN [st EXCEPT !.orderBlocks =
                             Append(@, [type |-> "bearish", high |-> swing.price,
                                        low |-> st.currentLow.price, confirmed |-> FALSE])]
         ELSE IF st.currentLow = Null THEN [st EXCEPT !.currentLow = swing]
         ELSE st
    ELSE st

\* One turn of the loop over the swings; st = [orderBlocks, currentHigh, currentLow]
OrderBlockStep(st, swing) ==
    IF swing.type = "high"
    THEN IF st.currentHigh # Null /\ swing.price > st.currentHigh.price
         THEN [st EXCEPT !.orderBlocks =
                             Append(@, [type |-> "bullish", high |-> st.currentHigh.price,
                                        low |-> swing.price, confirmed |-> FALSE]),
                         !.currentHigh = swing]
         ELSE IF st.currentHigh = Null \/ swing.price > st.currentHigh.price
         THEN [st EXCEPT !.currentHigh = swing]
         ELSE st
    ELSE IF swing.type = "low"
    THEN IF st.currentLow # Null /\ swing.price < st.currentLow.price
         THEN [st EXCEPT !.orderBlocks =
                             Append(@, [type |-> "bearish", high |-> swing.price,
                                        low |-> st.currentLow.price, confirmed |-> FALSE]),
                         !.currentLow = swing]
         ELSE IF st.currentLow = Null \/ swing.price < st.currentLow.price
         THEN [st EXCEPT !.currentLow = swing]
         ELSE st
    ELSE st

RECURSIVE OrderBlockLoop(_, _)
OrderBlockLoop(swings, n) ==
    IF n = 0 THEN [orderBlocks |-> << >>, currentHigh |-> Null, currentLow |-> Null]
    ELSE OrderBlockStep(OrderBlockLoop(swings, n - 1), swings[n])

identifyOrderBlocks(swings) == OrderBlockLoop(swings, Len(swings)).orderBlocks

(***************************************************************************)
(* /signals: the vote over the decisions of one symbol (lines 391-409)     *)
(***************************************************************************)
CountOf(decisions, d) == Len(SelectSeq(decisions, LAMBDA x : x = d))

\* The vote with ties won by BUY, then SELL
MutAggregatedDecisionTies(buyCount, sellCount, holdCount) ==
    IF buyCount >= sellCount /\ buyCount >= holdCount THEN "BUY"
    ELSE IF sellCount >= buyCount /\ sellCount >= holdCount THEN "SELL"
    ELSE "HOLD"

aggregatedDecision(buyCount, sellCount, holdCount) ==
    IF buyCount > sellCount /\ buyCount > holdCount THEN "BUY"
    ELSE IF sellCount > buyCount /\ sellCount > holdCount THEN "SELL"
    ELSE "HOLD"

Aggregate(decisions) ==
    [decision |-> aggregatedDecision(CountOf(decisions, "BUY"), CountOf(decisions, "SELL"),
                                     CountOf(decisions, "HOLD")),
     valid |-> Len(SelectSeq(decisions, LAMBDA x : x # "INSUFFICIENT_DATA"))]

(***************************************************************************)
(* periodicAnalysis: the alert scan (lines 506-529)                        *)
(***************************************************************************)
\* The pairs in the order analyzeAllSymbols fills the table: symbol by symbol,
\* timeframe by timeframe
AllPairs ==
    [k \in 1..(Len(SYMBOLS) * Len(TIMEFRAMES)) |->
        <<SYMBOLS[(k - 1) \div Len(TIMEFRAMES) + 1],
          TIMEFRAMES[((k - 1) % Len(TIMEFRAMES)) + 1]>>]

DetailPairs(symbol) == [k \in 1..Len(TIMEFRAMES) |-> <<symbol, TIMEFRAMES[k]>>]

\* The test of the scan with MEDIUM let through
MutIsHighConfidenceOrMedium(analysis) ==
    "confidence" \in DOMAIN analysis /\ analysis.confidence \in {"HIGH", "MEDIUM"}

\* analysis.confidence === 'HIGH'; an INSUFFICIENT_DATA record has no confidence
IsHighConfidence(analysis) ==
    "confidence" \in DOMAIN analysis /\ analysis.confidence = "HIGH"

AlertLine(pair, analysis) ==
    [symbol |-> pair[1], timeframe |-> pair[2],
     decision |-> analysis.decision, confidence |-> analysis.confidence]

\* The lines appended to alertMessage, in the order of the two loops
RECURSIVE AlertLinesFrom(_, _)
AlertLinesFrom(analysisResults, k) ==
    IF k > Len(AllPairs) THEN << >>
    ELSE (IF AllPairs[k] \in DOMAIN analysisResults
             /\ IsHighConfidence(analysisResults[AllPairs[k]])
          THEN <<AlertLine(AllPairs[k], analysisResults[AllPairs[k]])>>
          ELSE << >>) \o AlertLinesFrom(analysisResults, k + 1)

AlertLines(analysisResults) == AlertLinesFrom(analysisResults, 1)

Subscribed(session) == session.kind = "session" /\ session.subscribed

\* The messages one run of the scan sends
Alerts(analysisResults, sess) ==
    {[to |-> chat, lines |-> AlertLines(analysisResults)] :
        chat \in {c \in Chats : Subscribed(sess[c]) /\ AlertLines(analysisResults) # << >>}}

(***************************************************************************)
(* The PriceSource and the batches.                                        *)
(*                                                                         *)
(* fetchHistoricalData of the repository is a stand-in that returns 100    *)
(* random prices; the model takes any PriceSource: a fetch ends with a     *)
(* series, with no series (null), or rejects.  A batch is one run of a     *)
(* handler that awaits analyzeSymbol pair after pair; it is suspended only *)
(* at the fetch, so that one step is: the fetch returns, analyzeSymbol     *)
(* runs to its end, and the handler runs on to its next await.             *)
(***************************************************************************)
Rejected == [kind |-> "rejected"]

Batches == {"periodic", "signals", "details"}

PairsOf(b, req) == IF b = "details" THEN DetailPairs(req) ELSE AllPairs

Empty == [k \in {} |-> Null]

Put(table, key, value) ==
    [x \in DOMAIN table \cup {key} |-> IF x = key THEN value ELSE table[x]]

\* One table shared by all the batches
MutStoreResultShared(res, b, key, analysis) ==
    [x \in DOMAIN res |-> Put(res[x], key, analysis)]

\* results[symbol][timeframe] = ...: the table is a local of the batch
StoreResult(res, b, key, analysis) == [res EXCEPT ![b] = Put(@, key, analysis)]

\* The series a, b, c, ..., c, d of length n
Series(n, a, b, c, d) ==
    [i \in 1..n |-> IF i = 1 THEN a ELSE IF i = 2 THEN b ELSE IF i = n THEN d ELSE c]

\* The lengths around the thresholds 20, 26 and 50 of the indicators
Lengths == {19, 20, 25, 26, 49, 50}

Family ==
    {Series(n, a, b, c, d) : n \in Lengths, a \in 0..FamilyMaxPrice, b \in 0..FamilyMaxPrice,
                             c \in 0..FamilyMaxPrice, d \in 0..FamilyMaxPrice}

\* A down, flat, up series of length 20
GoodSeries == Series(20, 1, 0, 0, 1)

NoBatch ==
    /\ pc = [b \in Batches |-> "idle"]
    /\ cursor = [b \in Batches |-> 0]
    /\ request = [b \in Batches |-> "*"]
    /\ results = [b \in Batches |-> Empty]
    /\ fetched = [b \in Batches |-> Empty]

NoFunction == input = Null /\ output = Null

Session(subscribed) == [kind |-> "session", subscribed |-> subscribed]

\* /start
StartCmd(chat) ==
    /\ sessions' = IF sessions[chat] = Undefined
                   THEN [sessions EXCEPT ![chat] = Session(TRUE)]
                   ELSE sessions
    /\ UNCHANGED <<market, pc, cursor, request, results, fetched, sent, input, output>>

\* A handler starts its run and is suspended at its first fetch
Begin(b, req) ==
    /\ pc[b] \in {"idle", "done", "failed"}
    /\ pc' = [pc EXCEPT ![b] = "awaiting"]
    /\ cursor' = [cursor EXCEPT ![b] = 1]
    /\ request' = [request EXCEPT ![b] = req]
    /\ results' = [results EXCEPT ![b] = Empty]
    /\ fetched' = [fetched EXCEPT ![b] = Empty]
    /\ UNCHANGED <<market, sessions, sent, input, output>>

\* The timer fires: periodicAnalysis
PeriodicStart == Begin("periodic", "*")

\* /signals
SignalsCmd == Begin("signals", "*")

\* /details <SYMBOL>; an unsupported symbol is answered without analysis
DetailsCmd(symbol) ==
    IF \E k \in 1..Len(SYMBOLS) : SYMBOLS[k] = symbol
    THEN Begin("details", symbol)
    ELSE pc["details"] \in {"idle", "done", "failed"} /\ UNCHANGED vars

\* The awaited fetch of batch b ends with outcome o
FetchReturn(b, o) ==
    /\ pc[b] = "awaiting"
    /\ LET pairs == PairsOf(b, request[b])
           key == pairs[cursor[b]]
           analysis == analyzeSymbol(key[1], key[2], o)
           last == cursor[b] = Len(pairs)
       IN  IF o = Rejected
           THEN \* the rejection leaves analyzeSymbol and the loop, and is caught
                \* by the handler: the run ends, its table is dropped
                /\ pc' = [pc EXCEPT ![b] = "failed"]
                /\ results' = [results EXCEPT ![b] = Empty]
                /\ fetched' = [fetched EXCEPT ![b] = Empty]
                /\ UNCHANGED cursor
           ELSE IF last /\ b = "details"
           THEN \* /details renders its reply in the same turn
                /\ pc' = [pc EXCEPT ![b] = "done"]
                /\ results' = [results EXCEPT ![b] = Empty]
                /\ fetched' = [fetched EXCEPT ![b] = Empty]
                /\ UNCHANGED cursor
           ELSE /\ pc' = [pc EXCEPT ![b] = IF last THEN "collected" ELSE "awaiting"]
                /\ cursor' = [cursor EXCEPT ![b] = IF last THEN @ ELSE @ + 1]
                /\ results' = StoreResult(results, b, key, analysis)
                /\ fetched' = [fetched EXCEPT ![b] = Put(@, key, o)]
    /\ UNCHANGED <<market, request, sessions, sent, input, output>>

Fetch(b) == \E o \in market : FetchReturn(b, o)

\* analyzeAllSymbols has returned to periodicAnalysis: the alert scan
FinishPeriodic ==
    /\ pc["periodic"] = "collected"
    /\ sent' = sent \cup Alerts(results["periodic"], sessions)
    /\ pc' = [pc EXCEPT !["periodic"] = "done"]
    /\ results' = [results EXCEPT !["periodic"] = Empty]
    /\ fetched' = [fetched EXCEPT !["periodic"] = Empty]
    /\ UNCHANGED <<market, cursor, request, sessions, input, output>>

\* analyzeAllSymbols has returned to /signals: the reply is rendered
FinishSignals ==
    /\ pc["signals"] = "collected"
    /\ pc' = [pc EXCEPT !["signals"] = "done"]
    /\ results' = [results EXCEPT !["signals"] = Empty]
    /\ fetched' = [fetched EXCEPT !["signals"] = Empty]
    /\ UNCHANGED <<market, cursor, request, sessions, sent, input, output>>

(***************************************************************************)
(* Spec: the three handlers interleaved over a PriceSource that can reject,*)
(* return null, or return a series.                                        *)
(***************************************************************************)
Init ==
    /\ market = {Rejected, Null, Array(GoodSeries)}
    /\ NoBatch
    /\ sessions = [c \in Chats |-> Session(TRUE)]
    /\ sent = {}
    /\ NoFunction

Next ==
    \/ PeriodicStart
    \/ SignalsCmd
    \/ \E symbol \in {"BTC", "ETH", "DOGE"} : DetailsCmd(symbol)
    \/ \E b \in Batches : Fetch(b)
    \/ FinishPeriodic
    \/ FinishSignals

Spec == Init /\ [][Next]_vars

(***************************************************************************)
(* SpecAnalyze: the periodic analysis over a PriceSource that returns one  *)
(* series of the family, or null.                                          *)
(***************************************************************************)
InitAnalyze ==
    /\ market \in {{Array(series)} : series \in Family} \cup {{Null}}
    /\ NoBatch
    /\ sessions = [c \in Chats |-> Session(TRUE)]
    /\ sent = {}
    /\ NoFunction

NextAnalyze ==
    \/ PeriodicStart
    \/ Fetch("periodic")
    \/ FinishPeriodic

SpecAnalyze == InitAnalyze /\ [][NextAnalyze]_vars

(***************************************************************************)
(* The functions on their own: the input is drawn at the start, one step   *)
(* applies the function.                                                   *)
(***************************************************************************)
Returned(value) == [kind |-> "returned", value |-> value]

NoPipeline ==
    /\ market = {}
    /\ NoBatch
    /\ sessions = [c \in Chats |-> Undefined]
    /\ sent = {}

RECURSIVE SeqsUpTo(_, _)
SeqsUpTo(S, n) ==
    IF n = 0 THEN {<< >>}
    ELSE LET shorter == SeqsUpTo(S, n - 1)
         IN  shorter \cup {Append(q, x) : q \in {q \in shorter : Len(q) = n - 1}, x \in S}

\* The decision rule of analyzeSymbol on the counts
ApplyDecide ==
    /\ output = Pending
    /\ output' = Returned(Decide(input.bullish, input.bearish))
    /\ UNCHANGED <<market, pc, cursor, request, results, fetched, sessions, sent, input>>

InitDecide ==
    /\ NoPipeline
    /\ input \in [bullish : 0..MaxCount, bearish : 0..MaxCount]
    /\ output = Pending

SpecDecide == InitDecide /\ [][ApplyDecide]_vars

\* The vote of /signals on the decisions of one symbol
ApplyAggregate ==
    /\ output = Pending
    /\ output' = Returned(Aggregate(input))
    /\ UNCHANGED <<market, pc, cursor, request, results, fetched, sessions, sent, input>>

InitAggregate ==
    /\ NoPipeline
    /\ input \in SeqsUpTo({"BUY", "SELL", "HOLD", "INSUFFICIENT_DATA"}, MaxVotes)
    /\ output = Pending

SpecAggregate == InitAggregate /\ [][ApplyAggregate]_vars

ApplyFindSwings ==
    /\ output = Pending
    /\ output' = Returned(findSwings(input.prices, input.windowSize))
    /\ UNCHANGED <<market, pc, cursor, request, results, fetched, sessions, sent, input>>

InitSwings ==
    /\ NoPipeline
    /\ input \in [prices : SeqsUpTo(Prices, MaxLen), windowSize : 1..MaxWindow]
    /\ output = Pending

SpecSwings == InitSwings /\ [][ApplyFindSwings]_vars

ApplyIdentifyOrderBlocks ==
    /\ output = Pending
    /\ output' = Returned(identifyOrderBlocks(input))
    /\ UNCHANGED <<market, pc, cursor, request, results, fetched, sessions, sent, input>>

\* Swing sequences as findSwings builds them: the indices ascend
SwingSeqs ==
    {[k \in 1..Len(q) |-> [type |-> q[k][1], index |-> k, price |-> q[k][2]]] :
        q \in SeqsUpTo({"high", "low"} \X Prices, MaxSwings)}

InitBlocks ==
    /\ NoPipeline
    /\ input \in SwingSeqs
    /\ output = Pending

SpecBlocks == InitBlocks /\ [][ApplyIdentifyOrderBlocks]_vars

ApplyCalculateRSI ==
    /\ output = Pending
    /\ output' = Returned(calculateRSI(input.prices, input.period))
    /\ UNCHANGED <<market, pc, cursor, request, results, fetched, sessions, sent, input>>

InitRSI ==
    /\ NoPipeline
    /\ input \in [prices : SeqsUpTo(Prices, MaxLen), period : 1..MaxPeriod]
    /\ output = Pending

SpecRSI == InitRSI /\ [][ApplyCalculateRSI]_vars

(***************************************************************************)
(* SpecScan: the alert scan of periodicAnalysis on any table of analyses   *)
(* and any sessions (data.json may hold sessions that are not subscribed). *)
(***************************************************************************)
PairSet == {AllPairs[k] : k \in 1..Len(AllPairs)}

ScanKinds == {<<"BUY", "HIGH">>, <<"SELL", "HIGH">>, <<"BUY", "MEDIUM">>,
              <<"HOLD", "LOW">>, <<"INSUFFICIENT_DATA">>}

ScanAnalysis(key, kind) ==
    IF Len(kind) = 1
    THEN [symbol |-> key[1], timeframe |-> key[2],
          decision |-> kind[1], reason |-> "Not enough historical data"]
    ELSE [symbol |-> key[1], timeframe |-> key[2],
          decision |-> kind[1], confidence |-> kind[2]]

InitScan ==
    /\ market = {}
    /\ pc = [b \in Batches |-> IF b = "periodic" THEN "collected" ELSE "idle"]
    /\ cursor = [b \in Batches |-> IF b = "periodic" THEN Len(AllPairs) ELSE 0]
    /\ request = [b \in Batches |-> "*"]
    /\ \E kinds \in [PairSet -> ScanKinds] :
           results = [b \in Batches |-> IF b = "periodic"
                                        THEN [key \in PairSet |-> ScanAnalysis(key, kinds[key])]
                                        ELSE Empty]
    /\ fetched = [b \in Batches |-> Empty]
    /\ sessions \in [Chats -> {Undefined, Session(TRUE), Session(FALSE)}]
    /\ sent = {}
    /\ NoFunction

NextScan ==
    \/ \E chat \in Chats : StartCmd(chat)
    \/ FinishPeriodic

SpecScan == InitScan /\ [][NextScan]_vars

(***************************************************************************)
(* Properties                                                              *)
(***************************************************************************)
SetMin(S) == CHOOSE x \in S : \A y \in S : x <= y

RECURSIVE SumSeq(_)
SumSeq(q) == IF q = << >> THEN 0 ELSE Head(q) + SumSeq(Tail(q))

\* C1: the decision is BUY iff bullish > bearish + 1, SELL iff bearish >
\* bullish + 1, HOLD otherwise; the confidence is HIGH iff the decision is BUY
\* or SELL and the winning count is at least 4, MEDIUM iff it is BUY or SELL
\* and the winning count is below 4, LOW iff the decision is HOLD.
C1_DecisionRule ==
    output.kind = "returned" =>
        LET bullish == input.bullish
            bearish == input.bearish
            r == output.value
            buy == bullish > bearish + 1
            sell == bearish > bullish + 1
        IN  /\ r.decision \in {"BUY", "SELL", "HOLD"}
            /\ r.confidence \in {"HIGH", "MEDIUM", "LOW"}
            /\ r.decision = "BUY" <=> buy
            /\ r.decision = "SELL" <=> sell
            /\ r.decision = "HOLD" <=> ~buy /\ ~sell
            /\ r.confidence = "HIGH" <=> (buy /\ bullish >= 4) \/ (sell /\ bearish >= 4)
            /\ r.confidence = "MEDIUM" <=> (buy /\ bullish < 4) \/ (sell /\ bearish < 4)
            /\ r.confidence = "LOW" <=> r.decision = "HOLD"
            /\ bullish = 5 /\ bearish = 0 => r.decision = "BUY" /\ r.confidence = "HIGH"
            /\ bullish = 2 /\ bearish = 1 => r.decision = "HOLD" /\ r.confidence = "LOW"

C1_Witness ==
    /\ input = [bullish |-> 5, bearish |-> 0]
    /\ output = Returned([decision |-> "BUY", confidence |-> "HIGH"])

VotesFor(decisions, d) == Cardinality({i \in 1..Len(decisions) : decisions[i] = d})

\* C4: the vote is BUY iff the BUY decisions strictly outnumber both the SELL
\* and the HOLD decisions, SELL iff the SELL decisions strictly outnumber both
\* the BUY and the HOLD decisions, HOLD in every other case; INSUFFICIENT_DATA
\* decisions cast no vote and only lower the valid count.
C4_MajorityVote ==
    output.kind = "returned" =>
        LET buy == VotesFor(input, "BUY")
            sell == VotesFor(input, "SELL")
            hold == VotesFor(input, "HOLD")
            r == output.value
        IN  /\ r.decision \in {"BUY", "SELL", "HOLD"}
            /\ r.decision = "BUY" <=> buy > sell /\ buy > hold
            /\ r.decision = "SELL" <=> sell > buy /\ sell > hold
            /\ r.valid = Len(input) - VotesFor(input, "INSUFFICIENT_DATA")
            /\ input = <<"BUY", "BUY", "HOLD">> => r.decision = "BUY"
            /\ input = <<"BUY", "SELL", "HOLD">> => r.decision = "HOLD"

C4_Witness ==
    /\ input = <<"BUY", "INSUFFICIENT_DATA", "BUY", "HOLD">>
    /\ output = Returned([decision |-> "BUY", valid |-> 3])

\* Every other value of the window of the 0-based index i is strictly less
IsSwingHigh(prices, w, i) ==
    \A j \in (i - w)..(i + w) : j # i => prices[j + 1] < prices[i + 1]

\* Every other value of the window of the 0-based index i is strictly greater
IsSwingLow(prices, w, i) ==
    \A j \in (i - w)..(i + w) : j # i => prices[j + 1] > prices[i + 1]

StrictlyIncreasing(q) == \A k \in 1..(Len(q) - 1) : q[k] < q[k + 1]

StrictlyDecreasing(q) == \A k \in 1..(Len(q) - 1) : q[k] > q[k + 1]

\* C7: for w >= 1 findSwings returns, index ascending and each index once,
\* exactly the indices i in w..len-w-1 whose value is strictly above (high) or
\* strictly below (low) every other value of [i-w, i+w]; no index is both, an
\* index with an equal value in its window is left out, and a strictly
\* monotonic series has no swings.
C7_FindSwings ==
    output.kind = "returned" =>
        LET prices == input.prices
            w == input.windowSize
            swings == output.value
            candidates == w..(Len(prices) - w - 1)
        IN  /\ \A k \in 1..(Len(swings) - 1) : swings[k].index < swings[k + 1].index
            /\ {swings[k].index : k \in 1..Len(swings)}
                   = {i \in candidates : IsSwingHigh(prices, w, i) \/ IsSwingLow(prices, w, i)}
            /\ \A k \in 1..Len(swings) :
                   LET i == swings[k].index
                   IN  /\ swings[k].price = prices[i + 1]
                       /\ swings[k].type = "high" <=> IsSwingHigh(prices, w, i)
                       /\ swings[k].type = "low" <=> IsSwingLow(prices, w, i)
                       /\ \A j \in (i - w)..(i + w) : j # i => prices[j + 1] # prices[i + 1]
            /\ \A i \in candidates : ~(IsSwingHigh(prices, w, i) /\ IsSwingLow(prices, w, i))
            /\ StrictlyIncreasing(prices) \/ StrictlyDecreasing(prices) => swings = << >>

C7_Witness ==
    /\ input = [prices |-> <<0, 2, 1, 1, 0, 1>>, windowSize |-> 1]
    /\ output = Returned(<<[type |-> "high", index |-> 1, price |-> 2],
                           [type |-> "low", index |-> 4, price |-> 0]>>)

EarlierPrices(swings, k, type) ==
    {swings[j].price : j \in {j \in 1..(k - 1) : swings[j].type = type}}

\* The swing at position k sets a new extreme among the earlier swings of its type
Triggers(swings, k) ==
    LET earlier == EarlierPrices(swings, k, swings[k].type)
    IN  /\ earlier # {}
        /\ IF swings[k].type = "high"
           THEN swings[k].price > SetMax(earlier)
           ELSE swings[k].price < SetMin(earlier)

ExpectedBlock(swings, k) ==
    LET earlier == EarlierPrices(swings, k, swings[k].type)
    IN  IF swings[k].type = "high"
        THEN [type |-> "bullish", high |-> SetMax(earlier),
              low |-> swings[k].price, confirmed |-> FALSE]
        ELSE [type |-> "bearish", high |-> swings[k].price,
              low |-> SetMin(earlier), confirmed |-> FALSE]

\* C8: identifyOrderBlocks emits, in the order of the swings, one bullish
\* block for exactly the high swings whose price strictly exceeds the maximum
\* of the earlier highs (high = that maximum, low = the swing's price) and one
\* bearish block for exactly the low swings whose price is strictly below the
\* minimum of the earlier lows (low = that minimum, high = the swing's price);
\* every block is unconfirmed, and no swings give no blocks.
C8_OrderBlocks ==
    output.kind = "returned" =>
        LET swings == input
            blocks == output.value
            triggering == {k \in 1..Len(swings) : Triggers(swings, k)}
        IN  /\ Len(blocks) = Cardinality(triggering)
            /\ \A k \in triggering :
                   blocks[Cardinality({t \in triggering : t <= k})] = ExpectedBlock(swings, k)
            /\ \A n \in 1..Len(blocks) : blocks[n].confirmed = FALSE
            /\ swings = << >> => blocks = << >>

C8_Witness ==
    /\ input = <<[type |-> "high", index |-> 1, price |-> 1],
                 [type |-> "low", index |-> 2, price |-> 1],
                 [type |-> "high", index |-> 3, price |-> 2],
                 [type |-> "low", index |-> 4, price |-> 0]>>
    /\ output = Returned(<<[type |-> "bullish", high |-> 1, low |-> 2, confirmed |-> FALSE],
                           [type |-> "bearish", high |-> 0, low |-> 1, confirmed |-> FALSE]>>)

\* The gains and the losses of the first period deltas (1-based positions)
OldestGains(prices, period) ==
    SumSeq([i \in 1..period |-> Max(prices[i + 1] - prices[i], 0)])

OldestLosses(prices, period) ==
    SumSeq([i \in 1..period |-> Max(prices[i] - prices[i + 1], 0)])

\* C9: for a series of at least period + 1 samples the RSI lies in [0, 100]
\* and is a function of the oldest period + 1 samples: 0 when they strictly
\* decrease, 100 when they strictly increase and whenever none of the first
\* period deltas is negative; a shorter series gives null.
C9_RSI ==
    output.kind = "returned" =>
        LET prices == input.prices
            period == input.period
            rsi == output.value
        IN  IF Len(prices) < period + 1 THEN rsi = Null
            ELSE LET gains == OldestGains(prices, period)
                     losses == OldestLosses(prices, period)
                     oldest == SubSeq(prices, 1, period + 1)
                 IN  /\ rsi.kind = "num"
                     /\ ~RatLess(rsi, RatInt(0))
                     /\ ~RatLess(RatInt(100), rsi)
                     /\ rsi = IF losses = 0 THEN RatInt(100)
                              ELSE Rat(100 * gains, gains + losses)
                     /\ StrictlyDecreasing(oldest) => rsi = RatInt(0)
                     /\ StrictlyIncreasing(oldest) => rsi = RatInt(100)
                     /\ losses = 0 => rsi = RatInt(100)

C9_Witness ==
    /\ input = [prices |-> <<2, 1, 0, 2, 2>>, period |-> 2]
    /\ output = Returned(RatInt(0))

\* C2 (as stated): a fetch that rejects, returns null or returns fewer than 20
\* prices makes analyzeSymbol return an INSUFFICIENT_DATA record with a reason
\* and without signals or indicators; no failure reaches the caller, so no
\* batch ever ends in its handler's catch.
C2_FetchFailureIsInsufficientData ==
    \A b \in Batches :
        /\ pc[b] # "failed"
        /\ \A key \in DOMAIN results[b] :
               LET o == fetched[b][key]
                   a == results[b][key]
               IN  (o.kind = "null" \/ Len(o.data) < 20) =>
                       /\ a.decision = "INSUFFICIENT_DATA"
                       /\ DOMAIN a = {"symbol", "timeframe", "decision", "reason"}

GroupOf(tag) ==
    CASE tag \in {BULLISH_TREND, BEARISH_TREND} -> "Trend"
      [] tag \in {OVERSOLD, OVERBOUGHT, NEUTRAL_RSI} -> "Momentum"
      [] tag \in {BULLISH_MACD, BEARISH_MACD} -> "MACD"
      [] OTHER -> "Bands"

\* The rule groups a series of n prices has indicators for, in their order
AvailableGroups(n) ==
    (IF n >= 50 THEN <<"Trend">> ELSE << >>)
        \o (IF n >= 15 THEN <<"Momentum">> ELSE << >>)
        \o (IF n >= 26 THEN <<"MACD">> ELSE << >>)
        \o (IF n >= 20 THEN <<"Bands">> ELSE << >>)

\* C3 (as stated): for a series of at least 20 non-negative prices, zero
\* included, the signals hold exactly one tag per rule group whose indicators
\* are available, in the order Trend, Momentum, MACD, Bands: a trend tag iff
\* the length is at least 50 (BULLISH_TREND if ma20 > ma50, else
\* BEARISH_TREND), a momentum tag iff at least 15, a MACD tag iff at least 26
\* (BULLISH_MACD if ema12 > ema26, else BEARISH_MACD), a bands tag iff at
\* least 20.
C3_OneTagPerAvailableGroup ==
    \A key \in DOMAIN results["periodic"] :
        LET o == fetched["periodic"][key]
            a == results["periodic"][key]
        IN  (o.kind = "array" /\ Len(o.data) >= 20) =>
                LET n == Len(o.data)
                    signals == a.signals
                    ind == a.indicators
                IN  /\ [i \in 1..Len(signals) |-> GroupOf(signals[i])] = AvailableGroups(n)
                    /\ n >= 50 => signals[1] = IF RatLess(ind.ma50, ind.ma20)
                                               THEN BULLISH_TREND ELSE BEARISH_TREND
                    /\ n >= 26 => \E i \in 1..Len(signals) :
                                      signals[i] = IF BigRatLess(ind.ema26, ind.ema12)
                                                   THEN BULLISH_MACD ELSE BEARISH_MACD

\* The pairs the scan has to select
HighPairs(table) ==
    {key \in DOMAIN table : "confidence" \in DOMAIN table[key] /\ table[key].confidence = "HIGH"}

Position(q, x) == CHOOSE k \in 1..Len(q) : q[k] = x

\* Instrument order, then timeframe order
LineBefore(l1, l2) ==
    \/ Position(SYMBOLS, l1.symbol) < Position(SYMBOLS, l2.symbol)
    \/ /\ l1.symbol = l2.symbol
       /\ Position(TIMEFRAMES, l1.timeframe) < Position(TIMEFRAMES, l2.timeframe)

\* C5: the alert scan selects exactly the analyses of confidence HIGH, BUY and
\* SELL alike, none of confidence MEDIUM or LOW and no INSUFFICIENT_DATA
\* record; the selected entries are in instrument order, then timeframe
\* order; a subscribed chat is sent the alert iff at least one analysis is
\* selected, and a chat that is not subscribed is sent nothing.
C5_AlertScan ==
    [][pc["periodic"] = "collected" /\ pc'["periodic"] = "done" =>
        LET table == results["periodic"]
            new == sent' \ sent
        IN  /\ sent \subseteq sent'
            /\ \A chat \in Chats :
                   LET msgs == {m \in new : m.to = chat}
                   IN  /\ msgs # {} <=> Subscribed(sessions[chat]) /\ HighPairs(table) # {}
                       /\ Cardinality(msgs) <= 1
            /\ \A m \in new :
                   /\ m.to \in Chats
                   /\ {<<m.lines[k].symbol, m.lines[k].timeframe>> : k \in 1..Len(m.lines)}
                          = HighPairs(table)
                   /\ \A k \in 1..(Len(m.lines) - 1) : LineBefore(m.lines[k], m.lines[k + 1])
                   /\ \A k \in 1..Len(m.lines) :
                          LET a == table[<<m.lines[k].symbol, m.lines[k].timeframe>>]
                          IN  /\ m.lines[k].decision = a.decision
                              /\ m.lines[k].confidence = "HIGH"
                              /\ a.decision \in {"BUY", "SELL"}]_vars

C5_Witness ==
    /\ pc["periodic"] = "done"
    /\ sessions = [c \in Chats |-> IF c = 1 THEN Session(TRUE) ELSE Session(FALSE)]
    /\ sent = {[to |-> 1,
                lines |-> <<[symbol |-> "BTC", timeframe |-> "15m",
                             decision |-> "SELL", confidence |-> "HIGH"],
                            [symbol |-> "ETH", timeframe |-> "5m",
                             decision |-> "BUY", confidence |-> "HIGH"]>>]}

\* The pairs batch b has analysed so far
Analysed(b) ==
    LET pairs == PairsOf(b, request[b])
    IN  IF pc[b] = "awaiting" THEN {pairs[k] : k \in 1..(cursor[b] - 1)}
        ELSE IF pc[b] = "collected" THEN {pairs[k] : k \in 1..Len(pairs)}
        ELSE {}

\* C6: under every interleaving of the periodic scan, /signals and /details,
\* each batch holds for every pair it has analysed, and for no other pair, the
\* analysis that analyzeSymbol alone returns for the series fetched for that
\* pair; a batch that has ended or failed holds nothing.
C6_BatchIsolation ==
    \A b \in Batches :
        /\ DOMAIN results[b] = Analysed(b)
        /\ DOMAIN fetched[b] = Analysed(b)
        /\ \A key \in Analysed(b) :
               results[b][key] = analyzeSymbol(key[1], key[2], fetched[b][key])

C6_Witness ==
    /\ pc = [b \in Batches |-> IF b = "details" THEN "failed" ELSE "awaiting"]
    /\ cursor["periodic"] = 3
    /\ cursor["signals"] = 2
    /\ results["periodic"][<<"BTC", "5m">>].decision = "INSUFFICIENT_DATA"
    /\ results["periodic"][<<"BTC", "15m">>].decision = "HOLD"
    /\ results["signals"][<<"BTC", "5m">>].decision = "HOLD"

BullishLeaning(signals) ==
    Cardinality({i \in 1..Len(signals) : signals[i] \in {BULLISH_TREND, OVERSOLD, BULLISH_MACD}})

BearishLeaning(signals) ==
    Cardinality({i \in 1..Len(signals) : signals[i] \in {BEARISH_TREND, OVERBOUGHT, BEARISH_MACD}})

\* C10: the signals of an analysis hold at most three bullish-leaning and at
\* most three bearish-leaning tags, the counts analyzeSymbol decides on; so no
\* analysis has confidence HIGH, the alert scan selects nothing, and the
\* periodic analysis sends no alert.
C10_NeverHighConfidence ==
    /\ \A key \in DOMAIN results["periodic"] :
           LET a == results["periodic"][key]
           IN  /\ "signals" \in DOMAIN a =>
                      /\ BullishLeaning(a.signals) <= 3
                      /\ BearishLeaning(a.signals) <= 3
                      /\ bullishSignals(a.signals) = BullishLeaning(a.signals)
                      /\ bearishSignals(a.signals) = BearishLeaning(a.signals)
               /\ "confidence" \in DOMAIN a => a.confidence \in {"MEDIUM", "LOW"}
    /\ HighPairs(results["periodic"]) = {}
    /\ sent = {}

C10_Witness ==
    /\ pc["periodic"] = "collected"
    /\ \E key \in DOMAIN results["periodic"] :
           LET a == results["periodic"][key]
           IN  /\ "signals" \in DOMAIN a
               /\ a.signals = <<BULLISH_TREND, OVERSOLD, BULLISH_MACD, RESISTANCE_TOUCH>>
               /\ a.decision = "BUY"
               /\ a.confidence = "MEDIUM"

====
